---- MODULE Spec2Model ----
(***************************************************************************)
(* Study-material generator (backend/app/apis/study_material_generator).   *)
(*                                                                         *)
(* Four specifications over one set of variables:                          *)
(*   Spec      the retry wrapper and the two request handlers              *)
(*             (POST /generate, POST /process-file-upload);                *)
(*   SpecQuiz  parse_quiz applied to model replies;                        *)
(*   SpecFlash parse_flashcards applied to model replies;                  *)
(*   SpecConc  several requests served by one event loop.                  *)
(***************************************************************************)
EXTENDS Integers, Sequences, FiniteSets, TLC

VARIABLES
    pc,              \* "idle" | "call" | "sleep" | "done": position of the request served
    kind,            \* "none" | "with_retry" | "generate" | "upload"
    request,         \* the request being served
    secret,          \* db.secrets "GEMINI_API_KEY": "unset" | "set" | "unavailable"
    configured_key,  \* the key last given to genai.configure (process-wide)
    secret_lookups,  \* db.secrets.get calls made for the running request
    stage,           \* the prompt whose generate_content call is running
    completed,       \* the prompts whose generate_content call has returned, in order
    max_attempts,    \* with_retry parameter
    initial_delay,   \* with_retry parameter
    attempts,        \* with_retry local
    delay,           \* with_retry local
    invocations,     \* calls of func made by the running wrapper call
    log,             \* events of the running wrapper call: calls of func and sleeps
    outcome,         \* how the running wrapper call ended: returned or raised, and on which invocation
    rate_failed,     \* an invocation of the running wrapper call failed on quota / rate limit
    response,        \* the answer of the running request, once pc = "done"
    parse_fn,        \* "none" | "flashcards" | "quiz": the parser under study
    parse_src,       \* the pairs or blocks the model's reply is made of
    parse_in,        \* the model's reply: the text handed to the parser
    parse_pc,        \* "none" | "ready" | "parsed"
    parse_out,       \* the parser's result
    tasks,           \* the requests in flight on the event loop, by number
    loop_owner,      \* the request whose handler runs on the event loop, or 0
    calls            \* the external model calls made: the request and the key in effect

vars == <<pc, kind, request, secret, configured_key, secret_lookups, stage, completed,
          max_attempts, initial_delay, attempts, delay, invocations, log,
          outcome, rate_failed, response,
          parse_fn, parse_src, parse_in, parse_pc, parse_out,
          tasks, loop_owner, calls>>

handlerVars == <<pc, kind, request, secret, configured_key, secret_lookups, stage,
                 completed, max_attempts, initial_delay, attempts, delay, invocations, log,
                 outcome, rate_failed, response>>

parserVars == <<parse_fn, parse_src, parse_in, parse_pc, parse_out>>

taskVars == <<tasks, loop_owner, calls>>

----------------------------------------------------------------------------
(* Bounds of the model.                                                    *)

MaxAttemptsArg == 4     \* with_retry is exercised directly with max_attempts in 0..MaxAttemptsArg
MaxDelayArg == 2        \* ... and initial_delay in 0..MaxDelayArg
MaxFileLen == 2         \* uploaded files hold at most this many bytes
MaxPairs == 2           \* a flashcard reply holds at most this many pairs
MaxBlocks == 2          \* a quiz reply holds at most this many blocks
MaxRequests == 2        \* requests in flight at once on one event loop

(* Program constants.                                                      *)

DefaultMaxAttempts == 5
DefaultInitialDelay == 2

----------------------------------------------------------------------------
(* Values.                                                                 *)

None == [some |-> FALSE, v |-> ""]
Some(s) == [some |-> TRUE, v |-> s]

\* Python truthiness of an Optional[str]: None and "" are falsy.
Truthy(x) == x.some /\ x.v # ""

RECURSIVE SeqsUpTo(_, _)
SeqsUpTo(S, n) ==
    IF n = 0 THEN {<<>>}
    ELSE LET shorter == SeqsUpTo(S, n - 1)
         IN shorter \cup {Append(s, x) : s \in {t \in shorter : Len(t) = n - 1}, x \in S}

RECURSIVE Pow2(_)
Pow2(n) == IF n = 0 THEN 1 ELSE 2 * Pow2(n - 1)

----------------------------------------------------------------------------
(* Failure messages of the external model: str(e), a sequence of words.    *)

Words == {"Quota", "rate limit", "INVALID", "API key", "credentials", "timeout"}

\* the empty message, one word, or two words: a quota, auth or other word
\* followed by an auth, rate-limit or other word
ErrorMessages ==
    {<<>>} \cup {<<w>> : w \in Words}
        \cup {<<w1, w2>> : w1 \in {"Quota", "INVALID", "timeout"},
                           w2 \in {"INVALID", "rate limit", "timeout"}}

\* str.lower(), word by word.
LowerWord(w) ==
    CASE w = "Quota" -> "quota"
      [] w = "INVALID" -> "invalid"
      [] w = "API key" -> "api key"
      [] w = "Content is required for text input method"
            -> "content is required for text input method"
      [] w = "Topic is required for topic input method"
            -> "topic is required for topic input method"
      [] w = "File upload not supported in this endpoint"
            -> "file upload not supported in this endpoint"
      [] OTHER -> w

Lower(msg) == [i \in 1..Len(msg) |-> LowerWord(msg[i])]

\* kw in msg
In(kw, msg) == \E i \in 1..Len(msg) : msg[i] = kw

\* "rate limit" in error_message.lower() or "quota" in error_message.lower()
SignalsRateLimit(error_message) ==
    In("rate limit", Lower(error_message)) \/ In("quota", Lower(error_message))

\* "invalid" in ... or "api key" in ... or "credentials" in ...
SignalsAuth(error_message) ==
    \/ In("invalid", Lower(error_message))
    \/ In("api key", Lower(error_message))
    \/ In("credentials", Lower(error_message))

\* str() of a fastapi HTTPException built with keyword arguments: the empty
\* string (BaseException.__str__ over empty args) or "<status>: <detail>"
\* (starlette's __str__), depending on the installed starlette.
HTTPExceptionStr(detail) == {<<>>, <<"400:", detail>>}

----------------------------------------------------------------------------
(* Responses.                                                              *)

\* status, what the body holds, the error detail, and the message the detail quotes
NoResponse == [status |-> 0, body |-> "none", detail |-> "", cause |-> <<>>]
Generated == [status |-> 200, body |-> "generated", detail |-> "", cause |-> <<>>]
Mock == [status |-> 200, body |-> "mock", detail |-> "", cause |-> <<>>]
HTTPError(code, detail) == [status |-> code, body |-> "error", detail |-> detail, cause |-> <<>>]
HTTPErrorQuoting(code, detail, msg) ==
    [status |-> code, body |-> "error", detail |-> detail, cause |-> msg]

\* GenerateErrorResponse answering a rate limit as the upload handler does.
GenerateErrorResponseNoMock(error_message) ==
    IF SignalsRateLimit(error_message)
    THEN HTTPError(429, "API rate limit exceeded. Please try again later.")
    ELSE IF SignalsAuth(error_message)
         THEN HTTPError(401, "Invalid API key or authentication error.")
         ELSE HTTPErrorQuoting(500, "Error generating study materials", error_message)

\* GenerateErrorResponse looking for the auth words without lower().
GenerateErrorResponseCaseSensitive(error_message) ==
    IF SignalsRateLimit(error_message) THEN Mock
    ELSE IF In("invalid", error_message) \/ In("api key", error_message)
            \/ In("credentials", error_message)
         THEN HTTPError(401, "Invalid API key or authentication error.")
         ELSE HTTPErrorQuoting(500, "Error generating study materials", error_message)

\* generate_study_materials, the except clause
GenerateErrorResponse(error_message) ==
    IF SignalsRateLimit(error_message) THEN Mock
    ELSE IF SignalsAuth(error_message)
         THEN HTTPError(401, "Invalid API key or authentication error.")
         ELSE HTTPErrorQuoting(500, "Error generating study materials", error_message)

\* UploadErrorResponse falling back to the mock as /generate does.
UploadErrorResponseMock(error_message) ==
    IF SignalsRateLimit(error_message) THEN Mock
    ELSE IF SignalsAuth(error_message)
         THEN HTTPError(401, "Invalid API key or authentication error.")
         ELSE HTTPErrorQuoting(500, "Error generating study materials", error_message)

\* process_file_upload, the inner except clause (its HTTPException passes the
\* outer "except HTTPException: raise" unchanged)
UploadErrorResponse(error_message) ==
    IF SignalsRateLimit(error_message)
    THEN HTTPError(429, "API rate limit exceeded. Please try again later.")
    ELSE IF SignalsAuth(error_message)
         THEN HTTPError(401, "Invalid API key or authentication error.")
         ELSE HTTPErrorQuoting(500, "Error generating study materials", error_message)

----------------------------------------------------------------------------
(* Uploaded files: bytes, their decoding, str.strip().                     *)

\* space, "A", 0xA0 (alone: not UTF-8; Latin-1 NO-BREAK SPACE),
\* 0xC2 (lead byte of a two-byte UTF-8 sequence; Latin-1 "A circumflex")
Bytes == {32, 65, 160, 194}

Files == SeqsUpTo(Bytes, MaxFileLen)

\* bytes.decode("utf-8") over one- and two-byte sequences: <<>> of failures
\* when the bytes are valid, else the UnicodeDecodeError.
RECURSIVE Utf8Valid(_, _)
Utf8Valid(b, i) ==
    IF i > Len(b) THEN TRUE
    ELSE IF b[i] < 128 THEN Utf8Valid(b, i + 1)
    ELSE IF b[i] \in 194..223 /\ i < Len(b) /\ b[i + 1] \in 128..191
         THEN Utf8Valid(b, i + 2)
         ELSE FALSE

RECURSIVE Utf8Text(_, _)
Utf8Text(b, i) ==
    IF i > Len(b) THEN <<>>
    ELSE IF b[i] < 128 THEN <<b[i]>> \o Utf8Text(b, i + 1)
    ELSE <<(b[i] - 192) * 64 + (b[i + 1] - 128)>> \o Utf8Text(b, i + 2)

\* bytes.decode("latin-1"): every byte is the code point of its value.
Latin1Text(b) == [i \in 1..Len(b) |-> b[i]]

\* the text/plain branch: UTF-8, falling back to Latin-1
DecodeText(b) == IF Utf8Valid(b, 1) THEN Utf8Text(b, 1) ELSE Latin1Text(b)

\* str.isspace() of a code point below 256
IsSpace(c) == c \in {9, 10, 11, 12, 13, 28, 29, 30, 31, 32, 133, 160}

RECURSIVE LStrip(_)
LStrip(t) == IF t # <<>> /\ IsSpace(Head(t)) THEN LStrip(Tail(t)) ELSE t

RECURSIVE RStrip(_)
RStrip(t) ==
    IF t # <<>> /\ IsSpace(t[Len(t)]) THEN RStrip(SubSeq(t, 1, Len(t) - 1)) ELSE t

\* str.strip()
Strip(t) == RStrip(LStrip(t))

\* IsBlank without the strip().
IsBlankNoStrip(extracted_text) == extracted_text = <<>>

\* "not extracted_text.strip()"
IsBlank(extracted_text) == Strip(extracted_text) = <<>>

\* What PyMuPDF makes of the bytes: a failure to open them, or the pages' text.
\* Bytes that hold nothing but whitespace hold no page text.
PdfOutcomes(b) ==
    {[ok |-> FALSE, text |-> <<>>]}
        \cup {[ok |-> TRUE, text |-> t] :
                t \in {u \in {<<>>, <<32, 10>>, <<65>>} :
                            (\E i \in 1..Len(u) : ~IsSpace(u[i]))
                                => (\E i \in 1..Len(DecodeText(b)) : ~IsSpace(DecodeText(b)[i]))}}

----------------------------------------------------------------------------
(* Requests.                                                               *)

OptStrings == {None, Some(""), Some("cells")}
OptKeys == {None, Some(""), Some("user-key")}
StoredKey == "stored-key"
SecretStates == {"unset", "set", "unavailable"}

NoRequest ==
    [input_method |-> "", content |-> None, topic |-> None, gemini_api_key |-> None,
     content_type |-> "", file_bytes |-> <<>>]

\* StudyMaterialRequest; purpose and difficulty_level only fill the prompts.
GenerateRequests ==
    {[NoRequest EXCEPT !.input_method = m, !.content = c, !.topic = t,
                       !.gemini_api_key = k] :
        m \in {"text", "topic", "file"}, c \in OptStrings, t \in OptStrings, k \in OptKeys}

\* the multipart form of /process-file-upload
UploadRequests ==
    {[NoRequest EXCEPT !.content_type = ct, !.file_bytes = b, !.gemini_api_key = k] :
        ct \in {"application/pdf", "text/plain", "image/png"}, b \in Files, k \in OptKeys}

\* api_key_to_use = gemini_api_key if gemini_api_key else db.secrets.get(...)
ResolveKey(gemini_api_key, sec) ==
    IF Truthy(gemini_api_key)
    THEN [t |-> "key", key |-> gemini_api_key.v, lookups |-> 0]
    ELSE IF sec = "unavailable" THEN [t |-> "raise", key |-> "", lookups |-> 1]
    ELSE IF sec = "set" THEN [t |-> "key", key |-> StoredKey, lookups |-> 1]
    ELSE [t |-> "missing", key |-> "", lookups |-> 1]

KeyMissing ==
    HTTPError(400, "Gemini API key not found. Please provide one or configure it in secrets.")

----------------------------------------------------------------------------
(* The retry wrapper.                                                      *)

\* LoopContinues allowing one more round.
LoopContinuesInclusive(a, m) == a <= m

\* while attempts < max_attempts
LoopContinues(a, m) == a < m

\* Exhausted one attempt late.
ExhaustedLate(a, m) == a > m

\* if attempts >= max_attempts: raise e
Exhausted(a, m) == a >= m

\* NextDelay growing by a constant step.
NextDelayLinear(d) == d + 2

\* delay *= 2
NextDelay(d) == d * 2

CallEvent(n) == [ev |-> "call", n |-> n]
SleepEvent(d) == [ev |-> "sleep", n |-> d]

NoOutcome == [t |-> "none", msg |-> <<>>, inv |-> 0]
Returned(n) == [t |-> "returned", msg |-> <<>>, inv |-> n]
Raised(msg, n) == [t |-> "raised", msg |-> msg, inv |-> n]

\* NextStage going from the summary straight to the quiz.
NextStageSkipping(s) ==
    CASE s = "topic" -> "summary"
      [] s = "summary" -> "quiz"
      [] OTHER -> ""

\* summary, flashcards, quiz: the order of the calls in both handlers
NextStage(s) ==
    CASE s = "topic" -> "summary"
      [] s = "summary" -> "flashcards"
      [] s = "flashcards" -> "quiz"
      [] OTHER -> ""

\* wrapper(*args): attempts = 0; delay = initial_delay; the loop is entered
\* when max_attempts allows one attempt, else the wrapper returns None.
EnterWrapper(s, N, d) ==
    /\ stage' = s
    /\ completed' = <<>>
    /\ max_attempts' = N
    /\ initial_delay' = d
    /\ attempts' = 0
    /\ delay' = d
    /\ invocations' = 0
    /\ log' = <<>>
    /\ rate_failed' = FALSE
    /\ pc' = IF LoopContinues(0, N) THEN "call" ELSE "done"
    /\ outcome' = IF LoopContinues(0, N) THEN NoOutcome ELSE Returned(0)

\* The request is answered without the wrapper being entered.
Respond(resp) ==
    /\ pc' = "done"
    /\ response' = resp
    /\ UNCHANGED <<stage, completed, max_attempts, initial_delay, attempts, delay,
                   invocations, log, outcome, rate_failed>>

\* with_retry(func, N, d)() on its own
CallWithRetry(N, d) ==
    /\ pc = "idle"
    /\ kind' = "with_retry"
    /\ EnterWrapper("func", N, d)
    /\ UNCHANGED <<request, secret, configured_key, secret_lookups, response>>
    /\ UNCHANGED <<parserVars, taskVars>>

\* try: return func(*args, **kwargs)  -- func returns.  In a handler the next
\* generate_content call starts, or after the quiz the response is assembled.
InvokeReturns ==
    /\ pc = "call"
    /\ completed' = Append(completed, stage)
    /\ IF kind = "with_retry" \/ stage = "quiz"
       THEN /\ pc' = "done"
            /\ outcome' = Returned(invocations + 1)
            /\ invocations' = invocations + 1
            /\ log' = Append(log, CallEvent(invocations + 1))
            /\ response' = IF kind = "with_retry" THEN NoResponse ELSE Generated
            /\ UNCHANGED <<stage, attempts, delay, rate_failed>>
       ELSE /\ pc' = "call"
            /\ stage' = NextStage(stage)
            /\ attempts' = 0
            /\ delay' = initial_delay
            /\ invocations' = 0
            /\ log' = <<>>
            /\ rate_failed' = FALSE
            /\ outcome' = NoOutcome
            /\ UNCHANGED response
    /\ UNCHANGED <<kind, request, secret, configured_key, secret_lookups,
                   max_attempts, initial_delay>>
    /\ UNCHANGED <<parserVars, taskVars>>

\* except Exception as e: attempts += 1; raise e when the attempts are used
\* up, else go on to the sleep.  A raise reaches the handler's except clause.
InvokeRaises(msg) ==
    /\ pc = "call"
    /\ attempts' = attempts + 1
    /\ invocations' = invocations + 1
    /\ log' = Append(log, CallEvent(invocations + 1))
    /\ rate_failed' = (rate_failed \/ SignalsRateLimit(msg))
    /\ IF Exhausted(attempts + 1, max_attempts)
       THEN /\ pc' = "done"
            /\ outcome' = Raised(msg, invocations + 1)
            /\ response' = CASE kind = "generate" -> GenerateErrorResponse(msg)
                             [] kind = "upload" -> UploadErrorResponse(msg)
                             [] OTHER -> NoResponse
       ELSE /\ pc' = "sleep"
            /\ UNCHANGED <<outcome, response>>
    /\ UNCHANGED <<kind, request, secret, configured_key, secret_lookups, stage,
                   completed, max_attempts, initial_delay, delay>>
    /\ UNCHANGED <<parserVars, taskVars>>

\* sleep(delay); delay *= 2; back to the loop test
Sleep ==
    /\ pc = "sleep"
    /\ log' = Append(log, SleepEvent(delay))
    /\ delay' = NextDelay(delay)
    /\ pc' = IF LoopContinues(attempts, max_attempts) THEN "call" ELSE "done"
    /\ outcome' = IF LoopContinues(attempts, max_attempts) THEN outcome ELSE Returned(0)
    /\ UNCHANGED <<kind, request, secret, configured_key, secret_lookups, stage,
                   completed, max_attempts, initial_delay, attempts, invocations,
                   rate_failed, response>>
    /\ UNCHANGED <<parserVars, taskVars>>

----------------------------------------------------------------------------
(* POST /generate                                                          *)

\* generate_content is with_retry(generate_content): the defaults apply.
StartStage(s) ==
    /\ EnterWrapper(s, DefaultMaxAttempts, DefaultInitialDelay)
    /\ UNCHANGED response

\* The HTTPException raised inside the try block, or "" when the input passes.
GenerateInputError(req) ==
    CASE req.input_method = "text" ->
            IF ~Truthy(req.content) THEN "Content is required for text input method" ELSE ""
      [] req.input_method = "topic" ->
            IF ~Truthy(req.topic) THEN "Topic is required for topic input method" ELSE ""
      [] OTHER -> "File upload not supported in this endpoint"

\* The handler up to its first generate_content call.  The key is resolved
\* before the try block; the input checks run inside it, so that their
\* HTTPException is caught by the handler's own "except Exception".
generate_study_materials(req) ==
    /\ pc = "idle"
    /\ kind' = "generate"
    /\ request' = req
    /\ LET k == ResolveKey(req.gemini_api_key, secret)
           bad == GenerateInputError(req)
       IN /\ secret_lookups' = k.lookups
          /\ IF k.t = "raise"
             THEN /\ Respond(HTTPError(500, "Internal Server Error"))
                  /\ UNCHANGED configured_key
             ELSE IF k.t = "missing"
             THEN /\ Respond(KeyMissing)
                  /\ UNCHANGED configured_key
             ELSE /\ configured_key' = k.key
                  /\ IF bad # ""
                     THEN \E error_message \in HTTPExceptionStr(bad) :
                              Respond(GenerateErrorResponse(error_message))
                     ELSE StartStage(IF req.input_method = "topic" THEN "topic" ELSE "summary")
    /\ UNCHANGED secret
    /\ UNCHANGED <<parserVars, taskVars>>

----------------------------------------------------------------------------
(* POST /process-file-upload                                               *)

\* The text extracted from the upload, or the HTTPException of the branch.
Extraction(req, pdf) ==
    CASE req.content_type = "application/pdf" ->
            IF pdf.ok THEN [ok |-> TRUE, text |-> pdf.text, detail |-> ""]
            ELSE [ok |-> FALSE, text |-> <<>>, detail |-> "Error processing PDF file"]
      [] req.content_type = "text/plain" ->
            [ok |-> TRUE, text |-> DecodeText(req.file_bytes), detail |-> ""]
      [] OTHER ->
            [ok |-> FALSE, text |-> <<>>,
             detail |-> "Unsupported file type. Please upload PDF or TXT."]

EmptyExtraction == HTTPError(400, "File seems empty or text could not be extracted.")

\* The handler up to its first generate_content call.
process_file_upload(req, pdf) ==
    /\ pc = "idle"
    /\ kind' = "upload"
    /\ request' = req
    /\ LET x == Extraction(req, pdf)
           k == ResolveKey(req.gemini_api_key, secret)
       IN IF ~x.ok
          THEN /\ Respond(HTTPError(400, x.detail))
               /\ UNCHANGED <<configured_key, secret_lookups>>
          ELSE IF IsBlank(x.text)
          THEN /\ Respond(EmptyExtraction)
               /\ UNCHANGED <<configured_key, secret_lookups>>
          ELSE /\ secret_lookups' = k.lookups
               /\ IF k.t = "raise"
                  THEN /\ Respond(HTTPError(500, "Error processing file"))
                       /\ UNCHANGED configured_key
                  ELSE IF k.t = "missing"
                  THEN /\ Respond(KeyMissing)
                       /\ UNCHANGED configured_key
                  ELSE /\ configured_key' = k.key
                       /\ StartStage("summary")
    /\ UNCHANGED secret
    /\ UNCHANGED <<parserVars, taskVars>>

----------------------------------------------------------------------------
(* The specification of the handlers: the process serves one request, or   *)
(* one call of a wrapped function.                                         *)

HandlersIdle ==
    /\ pc = "idle"
    /\ kind = "none"
    /\ request = NoRequest
    /\ configured_key = ""
    /\ secret_lookups = 0
    /\ stage = ""
    /\ completed = <<>>
    /\ max_attempts = 0
    /\ initial_delay = 0
    /\ attempts = 0
    /\ delay = 0
    /\ invocations = 0
    /\ log = <<>>
    /\ outcome = NoOutcome
    /\ rate_failed = FALSE
    /\ response = NoResponse

ParsersIdle ==
    /\ parse_fn = "none"
    /\ parse_src = <<>>
    /\ parse_in = <<>>
    /\ parse_pc = "none"
    /\ parse_out = <<>>

TasksIdle ==
    /\ tasks = <<>>
    /\ loop_owner = 0
    /\ calls = {}

Init ==
    /\ HandlersIdle
    /\ secret \in SecretStates
    /\ ParsersIdle
    /\ TasksIdle

Next ==
    \/ \E N \in 0..MaxAttemptsArg, d \in 0..MaxDelayArg : CallWithRetry(N, d)
    \/ \E req \in GenerateRequests : generate_study_materials(req)
    \/ \E req \in UploadRequests : \E pdf \in PdfOutcomes(req.file_bytes) :
            process_file_upload(req, pdf)
    \/ InvokeReturns
    \/ \E msg \in ErrorMessages : InvokeRaises(msg)
    \/ Sleep

Spec == Init /\ [][Next]_vars

----------------------------------------------------------------------------
(* Regular expressions as re.compile(..., re.DOTALL) matches them.         *)
(*                                                                         *)
(* A text is a sequence of characters.  The words "Options:",              *)
(* "Correct answer", "correct option", "correct choice" and "Answer" are   *)
(* one element each: no pattern of the parsers can match inside them.      *)
(* A pattern is a sequence of items, matched left to right by              *)
(* backtracking in the order of Python's re: a greedy item tries its       *)
(* longest match first, a lazy one its shortest, an alternation its        *)
(* alternatives from the left.                                             *)

Lit(s) == [t |-> "lit", s |-> s]                 \* the characters of s
Alt(alts) == [t |-> "alt", alts |-> alts]        \* (?:a|b|...) of literals
Many(cls, min) == [t |-> "many", cls |-> cls, min |-> min]   \* \s*  \d+  (greedy)
Lazy(min) == [t |-> "lazy", min |-> min]         \* (.+?)  (.*?)  : a group
Opt(s) == [t |-> "opt", s |-> s]                 \* s?  (greedy)
Cap(cls) == [t |-> "cap", cls |-> cls]           \* ([A-D])  : a group
One(cls) == [t |-> "one", cls |-> cls]           \* [A-D]
Ahead(sub) == [t |-> "ahead", sub |-> sub]       \* (?=sub|$)

WhiteSpace == {" ", "\n", "\t"}      \* \s
Digits == {"1", "2", "3"}            \* \d
Letters == {"A", "B", "C", "D"}      \* [A-D]

NoMatch == [ok |-> FALSE, end |-> 0, caps |-> <<>>]

StartsWith(text, pos, s) ==
    /\ pos + Len(s) - 1 <= Len(text)
    /\ \A i \in 1..Len(s) : text[pos + i - 1] = s[i]

\* "$" without re.MULTILINE: the end of the text, or just before a final newline
AtDollar(text, pos) ==
    \/ pos = Len(text) + 1
    \/ pos = Len(text) /\ text[pos] = "\n"

RECURSIVE RunLen(_, _, _)
RunLen(text, pos, cls) ==
    IF pos <= Len(text) /\ text[pos] \in cls THEN 1 + RunLen(text, pos + 1, cls) ELSE 0

RECURSIVE Match(_, _, _, _, _)
RECURSIVE TryAlts(_, _, _, _, _, _)
RECURSIVE TryGreedy(_, _, _, _, _, _)
RECURSIVE TryLazy(_, _, _, _, _, _)

\* the alternatives of item k from the j-th on
TryAlts(re, k, text, pos, caps, j) ==
    IF j > Len(re[k].alts) THEN NoMatch
    ELSE LET r == IF StartsWith(text, pos, re[k].alts[j])
                  THEN Match(re, k + 1, text, pos + Len(re[k].alts[j]), caps)
                  ELSE NoMatch
         IN IF r.ok THEN r ELSE TryAlts(re, k, text, pos, caps, j + 1)

\* item k repeated n times, then fewer
TryGreedy(re, k, text, pos, caps, n) ==
    IF n < re[k].min THEN NoMatch
    ELSE LET r == Match(re, k + 1, text, pos + n, caps)
         IN IF r.ok THEN r ELSE TryGreedy(re, k, text, pos, caps, n - 1)

\* the group of item k ending before e, then later
TryLazy(re, k, text, pos, caps, e) ==
    IF e > Len(text) + 1 THEN NoMatch
    ELSE LET r == Match(re, k + 1, text, e, Append(caps, SubSeq(text, pos, e - 1)))
         IN IF r.ok THEN r ELSE TryLazy(re, k, text, pos, caps, e + 1)

\* the items of re from the k-th on, at pos
Match(re, k, text, pos, caps) ==
    IF k > Len(re) THEN [ok |-> TRUE, end |-> pos, caps |-> caps]
    ELSE CASE re[k].t = "lit" ->
                IF StartsWith(text, pos, re[k].s)
                THEN Match(re, k + 1, text, pos + Len(re[k].s), caps)
                ELSE NoMatch
           [] re[k].t = "alt" -> TryAlts(re, k, text, pos, caps, 1)
           [] re[k].t = "many" ->
                TryGreedy(re, k, text, pos, caps, RunLen(text, pos, re[k].cls))
           [] re[k].t = "lazy" -> TryLazy(re, k, text, pos, caps, pos + re[k].min)
           [] re[k].t = "opt" ->
                LET r == IF StartsWith(text, pos, re[k].s)
                         THEN Match(re, k + 1, text, pos + Len(re[k].s), caps)
                         ELSE NoMatch
                IN IF r.ok THEN r ELSE Match(re, k + 1, text, pos, caps)
           [] re[k].t = "cap" ->
                IF pos <= Len(text) /\ text[pos] \in re[k].cls
                THEN Match(re, k + 1, text, pos + 1, Append(caps, <<text[pos]>>))
                ELSE NoMatch
           [] re[k].t = "one" ->
                IF pos <= Len(text) /\ text[pos] \in re[k].cls
                THEN Match(re, k + 1, text, pos + 1, caps)
                ELSE NoMatch
           [] re[k].t = "ahead" ->
                IF AtDollar(text, pos) \/ Match(re[k].sub, 1, text, pos, <<>>).ok
                THEN Match(re, k + 1, text, pos, caps)
                ELSE NoMatch

\* pattern.findall(text): the groups of the matches, left to right, each
\* search starting where the previous match ended
RECURSIVE FindAll(_, _, _)
FindAll(re, text, pos) ==
    IF pos > Len(text) + 1 THEN <<>>
    ELSE LET r == Match(re, 1, text, pos, <<>>)
         IN IF r.ok
            THEN <<r.caps>> \o FindAll(re, text, IF r.end = pos THEN pos + 1 ELSE r.end)
            ELSE FindAll(re, text, pos + 1)

RECURSIVE LStripChars(_)
LStripChars(t) == IF t # <<>> /\ Head(t) \in WhiteSpace THEN LStripChars(Tail(t)) ELSE t

RECURSIVE RStripChars(_)
RStripChars(t) ==
    IF t # <<>> /\ t[Len(t)] \in WhiteSpace
    THEN RStripChars(SubSeq(t, 1, Len(t) - 1))
    ELSE t

\* StripChars leaving the blanks at the end.
StripCharsLeft(t) == LStripChars(t)

\* str.strip() of a text
StripChars(t) == RStripChars(LStripChars(t))

----------------------------------------------------------------------------
(* parse_flashcards                                                        *)

\* \*\*Q:\s*(.+?)\*\*\s*\*\*A:\s*(.+?)\*\*
flashcard_pattern ==
    <<Lit(<<"*", "*", "Q", ":">>), Many(WhiteSpace, 0), Lazy(1), Lit(<<"*", "*">>),
      Many(WhiteSpace, 0), Lit(<<"*", "*", "A", ":">>), Many(WhiteSpace, 0), Lazy(1),
      Lit(<<"*", "*">>)>>

\* \d+\.\s*Q:\s*(.+?)\s*A:\s*(.+?)(?=\d+\.\s*Q:|$)
alternative_pattern ==
    <<Many(Digits, 1), Lit(<<".">>), Many(WhiteSpace, 0), Lit(<<"Q", ":">>),
      Many(WhiteSpace, 0), Lazy(1), Many(WhiteSpace, 0), Lit(<<"A", ":">>),
      Many(WhiteSpace, 0), Lazy(1),
      Ahead(<<Many(Digits, 1), Lit(<<".">>), Many(WhiteSpace, 0), Lit(<<"Q", ":">>)>>)>>

\* FlashcardModel(question=question.strip(), answer=answer.strip()) per match
Flashcards(matches) ==
    [i \in 1..Len(matches) |->
        [question |-> StripChars(matches[i][1]), answer |-> StripChars(matches[i][2])]]

\* "if matches:" -- the alternative format is tried when the first finds nothing
UseAlternative(matches) == matches = <<>>

\* the flashcards, and whether the alternative pattern was searched
parse_flashcards(text) ==
    LET matches == FindAll(flashcard_pattern, text, 1)
    IN IF ~UseAlternative(matches)
       THEN [flashcards |-> Flashcards(matches), alternative |-> FALSE]
       ELSE [flashcards |-> Flashcards(FindAll(alternative_pattern, text, 1)),
             alternative |-> TRUE]

----------------------------------------------------------------------------
(* parse_quiz                                                              *)

\* \d+\.\s*(.+?)\s*(?:Options:|A\.)(.*?)
\*     (?:Correct answer|correct option|correct choice):?\s*([A-D])
quiz_pattern ==
    <<Many(Digits, 1), Lit(<<".">>), Many(WhiteSpace, 0), Lazy(1), Many(WhiteSpace, 0),
      Alt(<< <<"Options:">>, <<"A", ".">> >>), Lazy(0),
      Alt(<< <<"Correct answer">>, <<"correct option">>, <<"correct choice">> >>),
      Opt(<<":">>), Many(WhiteSpace, 0), Cap(Letters)>>

\* ([A-D])\.\s*(.+?)(?=[A-D]\.|$)
option_pattern ==
    <<Cap(Letters), Lit(<<".">>), Many(WhiteSpace, 0), Lazy(1),
      Ahead(<<One(Letters), Lit(<<".">>)>>)>>

\* QuizQuestionOption(option=option_text.strip(),
\*                    is_correct=(option_letter == correct_answer)) per option
Options(option_matches, correct_answer) ==
    [j \in 1..Len(option_matches) |->
        [option |-> StripChars(option_matches[j][2]),
         is_correct |-> (option_matches[j][1] = correct_answer)]]

\* the matches of quiz_pattern from the i-th on: a question per match whose
\* options text holds an option
RECURSIVE Questions(_, _)
Questions(matches, i) ==
    IF i > Len(matches) THEN <<>>
    ELSE LET option_matches == FindAll(option_pattern, matches[i][2], 1)
         IN (IF option_matches # <<>>
             THEN <<[question |-> StripChars(matches[i][1]),
                     options |-> Options(option_matches, matches[i][3])]>>
             ELSE <<>>) \o Questions(matches, i + 1)

parse_quiz(text) == Questions(FindAll(quiz_pattern, text, 1), 1)


----------------------------------------------------------------------------
(* Properties of the retry wrapper and the handlers, checked under Spec.   *)

\* The words of a failure message as the claims read them.
MentionsRateLimit(msg) == \E i \in 1..Len(msg) : msg[i] \in {"Quota", "rate limit"}
MentionsAuth(msg) == \E i \in 1..Len(msg) : msg[i] \in {"INVALID", "API key", "credentials"}

\* attempts counts the failed invocations: every invocation so far has failed
AllFailed == attempts = invocations

\* The events of a wrapper call whose invocations all fail: call k at place
\* 2k-1, and after it a sleep of initial_delay * 2^(k-1).
Schedule(i) ==
    IF i % 2 = 1 THEN CallEvent((i + 1) \div 2)
    ELSE SleepEvent(initial_delay * Pow2((i \div 2) - 1))

\* C1: with an attempt cap N >= 1 and an operation that fails on every
\* invocation, the wrapper makes at most N invocations, ends with the N-th,
\* and raises the failure of the N-th invocation.
C1_ExactlyNInvocations ==
    (kind # "none" /\ max_attempts >= 1 /\ AllFailed) =>
        /\ invocations <= max_attempts
        /\ (invocations = max_attempts) =>
              (pc = "done" /\ outcome.t = "raised" /\ outcome.inv = max_attempts)
        /\ (pc = "done" /\ stage # "") => invocations = max_attempts

C1_Witness ==
    /\ kind = "with_retry"
    /\ max_attempts = 3
    /\ invocations = 3
    /\ outcome = Raised(<<"timeout">>, 3)

\* C9: with an operation that fails on every invocation the wrapper waits
\* N-1 times, the k-th wait lasting d * 2^(k-1) between invocations k and
\* k+1; nothing is waited before the first invocation or after the last.
C9_BackoffSchedule ==
    (kind # "none" /\ max_attempts >= 1 /\ AllFailed) =>
        /\ \A i \in 1..Len(log) : log[i] = Schedule(i)
        /\ Len(log) = IF pc = "call" THEN 2 * invocations ELSE 2 * invocations - 1
        /\ outcome.t = "raised" => Len(log) = 2 * max_attempts - 1

C9_Witness ==
    /\ kind = "with_retry"
    /\ outcome.t = "raised"
    /\ initial_delay = 1
    /\ log = <<CallEvent(1), SleepEvent(1), CallEvent(2), SleepEvent(2),
               CallEvent(3), SleepEvent(4), CallEvent(4)>>

\* C2 (as claimed): with a key available, /generate answers text without
\* content, topic without topic, and file with HTTP 400, and makes no
\* external call for text and file.
C2_BadInputIs400 ==
    (/\ kind = "generate"
     /\ pc = "done"
     /\ (Truthy(request.gemini_api_key) \/ secret = "set")
     /\ \/ request.input_method = "text" /\ ~Truthy(request.content)
        \/ request.input_method = "topic" /\ ~Truthy(request.topic)
        \/ request.input_method = "file")
    => /\ response.status = 400
       /\ request.input_method \in {"text", "file"} => stage = ""

\* C3 (as claimed): on /generate a quota / rate-limit failure is answered at
\* once with the mock: the call is not made again and nothing is waited.
C3_ImmediateFallback ==
    (kind = "generate" /\ rate_failed) =>
        /\ pc = "done"
        /\ response = Mock
        /\ invocations = 1
        /\ \A i \in 1..Len(log) : log[i].ev # "sleep"

\* C3 (amended): on /generate the mock is the answer exactly when the failure
\* that leaves the wrapper, the one of the 5th invocation, signals quota /
\* rate limit; the wrapper has then made 5 invocations with waits of 2, 4, 8
\* and 16 between them, and nothing follows the last failure.
C3_FallbackAfterRetries ==
    kind = "generate" =>
        /\ (pc = "done" /\ outcome.t = "raised" /\ MentionsRateLimit(outcome.msg)) =>
              /\ response = Mock
              /\ invocations = DefaultMaxAttempts
              /\ log = [i \in 1..(2 * DefaultMaxAttempts - 1) |-> Schedule(i)]
              /\ initial_delay = DefaultInitialDelay
        /\ response = Mock =>
              (pc = "done" /\ outcome.t = "raised" /\ MentionsRateLimit(outcome.msg))
        /\ (rate_failed /\ pc # "done") => response = NoResponse

C3_Witness ==
    /\ kind = "generate"
    /\ response = Mock
    /\ outcome = Raised(<<"Quota">>, 5)
    /\ log[8] = SleepEvent(16)

\* C4: on /process-file-upload a generation that ends in a failure signalling
\* quota / rate limit is answered with HTTP 429, and no answer of the upload
\* handler is the mock.
C4_UploadRateLimitIs429 ==
    kind = "upload" =>
        /\ response.body # "mock"
        /\ (pc = "done" /\ outcome.t = "raised" /\ MentionsRateLimit(outcome.msg)) =>
              response.status = 429

C4_Witness ==
    /\ kind = "upload"
    /\ pc = "done"
    /\ outcome.t = "raised"
    /\ MentionsRateLimit(outcome.msg)
    /\ response.status = 429

\* The upload's bytes are empty or decode to whitespace only.
WhitespaceOnly(b) == \A i \in 1..Len(DecodeText(b)) : IsSpace(DecodeText(b)[i])

\* C5 (as claimed): an upload that is empty or whitespace only is answered
\* with HTTP 400 citing the empty extraction, whatever content type is
\* declared, before any key lookup or external call.
C5_BlankUploadCitesEmpty ==
    (kind = "upload" /\ pc = "done" /\ WhitespaceOnly(request.file_bytes)) =>
        /\ response = EmptyExtraction
        /\ secret_lookups = 0
        /\ stage = ""

\* C5 (amended): such an upload is answered with HTTP 400 whatever content
\* type is declared, before any key lookup or external call; the detail cites
\* the empty extraction when the declared type is text/plain.
C5_BlankUploadIs400 ==
    (kind = "upload" /\ WhitespaceOnly(request.file_bytes)) =>
        /\ pc = "done"
        /\ response.status = 400
        /\ secret_lookups = 0
        /\ stage = ""
        /\ request.content_type = "text/plain" => response = EmptyExtraction

C5_Witness ==
    /\ kind = "upload"
    /\ request.content_type = "text/plain"
    /\ request.file_bytes = <<160, 32>>
    /\ response = EmptyExtraction

\* C6 (as claimed): on /generate a failure whose message signals an
\* authentication problem is answered with HTTP 401, whatever else it holds.
C6_AuthFailureIs401 ==
    (kind = "generate" /\ pc = "done" /\ outcome.t = "raised" /\ MentionsAuth(outcome.msg))
        => response.status = 401

\* C6 (amended): on /generate a failure that leaves the wrapper with a
\* message signalling an authentication problem is answered with HTTP 401
\* when the message signals no quota / rate limit, and with the mock when it
\* does; it is never answered with HTTP 500.
C6_AuthFailureUnlessRateLimit ==
    (kind = "generate" /\ pc = "done" /\ outcome.t = "raised" /\ MentionsAuth(outcome.msg))
        => /\ response.status # 500
           /\ ~MentionsRateLimit(outcome.msg) => response.status = 401
           /\ MentionsRateLimit(outcome.msg) => response = Mock

C6_Witness ==
    /\ kind = "generate"
    /\ pc = "done"
    /\ outcome = Raised(<<"timeout", "INVALID">>, 5)
    /\ response.status = 401

\* The prompts of one request in the order the claim gives: the topic
\* expansion when the input is a topic, then summary, flashcards, quiz.
StageOrder(req) ==
    IF req.input_method = "topic"
    THEN <<"topic", "summary", "flashcards", "quiz">>
    ELSE <<"summary", "flashcards", "quiz">>

IsPrefix(s, t) == Len(s) <= Len(t) /\ \A i \in 1..Len(s) : s[i] = t[i]

\* the state part of C11
StagesInOrder ==
    kind \in {"generate", "upload"} =>
        /\ stage = "" => completed = <<>>
        /\ (stage # "" /\ response # Generated) =>
              /\ IsPrefix(Append(completed, stage), StageOrder(request))
              /\ completed # StageOrder(request)
        /\ response = Generated <=> (pc = "done" /\ completed = StageOrder(request))
        /\ pc \in {"call", "sleep"} => response = NoResponse
        /\ outcome.t = "raised" =>
              /\ pc = "done"
              /\ response.body \in {"error", "mock"}
              /\ response.body = "mock" => kind = "generate"

\* the step part of C11
NothingAfterExhaustion ==
    (kind \in {"generate", "upload"} /\ outcome.t = "raised") =>
        UNCHANGED <<stage, completed, invocations, log, response>>

\* C11: within one request the external calls are made in the order [topic
\* expansion,] summary, flashcards, quiz: a stage is called only when all
\* stages before it have returned, in that order; the generated materials
\* are the answer only when all stages have returned; once a stage exhausts
\* its retries no further call is made and the answer is an error or, on
\* /generate, the mock.
C11_StagesInOrder == []StagesInOrder /\ [][NothingAfterExhaustion]_vars

C11_Witness ==
    /\ kind = "generate"
    /\ request.input_method = "topic"
    /\ completed = <<"topic", "summary">>
    /\ stage = "flashcards"
    /\ outcome = Raised(<<"timeout">>, 5)
    /\ response.status = 500

\* the waits of a wrapper call
Sleeps(l) == Cardinality({i \in 1..Len(l) : l[i].ev = "sleep"})

\* the state part of C12; attempts counts the failed invocations
ReturnsFirstSuccess ==
    (kind # "none" /\ outcome.t = "returned" /\ (max_attempts >= 1 \/ outcome.inv >= 1)) =>
        /\ pc = "done"
        /\ 1 <= invocations /\ invocations <= max_attempts
        /\ invocations = attempts + 1
        /\ outcome = Returned(invocations)
        /\ Len(log) = 2 * invocations - 1
        /\ \A i \in 1..Len(log) : log[i] = Schedule(i)
        /\ Sleeps(log) = invocations - 1
        /\ response = IF kind = "with_retry" THEN NoResponse ELSE Generated

\* the step part of C12
NothingAfterReturn ==
    (kind # "none" /\ outcome.t = "returned") =>
        UNCHANGED <<attempts, invocations, log, outcome, response>>

\* C12: when the operation fails on its first k-1 invocations and succeeds
\* on the k-th, 1 <= k <= N, the wrapper returns the result of the k-th
\* invocation after exactly k invocations and k-1 waits; no failure reaches
\* the caller, and the operation is not invoked again.
C12_ReturnsFirstSuccess == []ReturnsFirstSuccess /\ [][NothingAfterReturn]_vars

C12_Witness ==
    /\ kind = "with_retry"
    /\ max_attempts = 4
    /\ attempts = 2
    /\ outcome = Returned(3)
    /\ log = <<CallEvent(1), SleepEvent(1), CallEvent(2), SleepEvent(2), CallEvent(3)>>

----------------------------------------------------------------------------
(* The specification of parse_flashcards: replies of the model made of     *)
(* pairs, written in the bold format the prompt asks for or as a numbered  *)
(* list, and the parser applied to them.                                   *)

\* a question and an answer, and whether they are written with blanks around
Pairs ==
    [q : {<<"x">>, <<"x", "*", " ", "y">>}, a : {<<"y">>, <<"A", ":", "x">>},
     padded : BOOLEAN]

Pad(p) == IF p.padded THEN <<" ">> ELSE <<>>

\* **Q: q** **A: a**
Bold(p) ==
    <<"*", "*", "Q", ":", " ">> \o Pad(p) \o p.q \o Pad(p) \o <<"*", "*">>
        \o (IF p.padded THEN <<"\n">> ELSE <<" ">>)
        \o <<"*", "*", "A", ":", " ">> \o Pad(p) \o p.a \o Pad(p) \o <<"*", "*", "\n">>

\* n. Q: q A: a
Numbered(p, n) ==
    <<n, ".", " ", "Q", ":", " ">> \o p.q \o <<" ", "A", ":", " ">> \o p.a \o <<"\n">>

DigitOf(i) == CASE i = 1 -> "1" [] i = 2 -> "2" [] OTHER -> "3"

RECURSIVE RenderPairs(_, _, _)
RenderPairs(style, pairs, i) ==
    IF i > Len(pairs) THEN <<>>
    ELSE (IF style = "bold" THEN Bold(pairs[i]) ELSE Numbered(pairs[i], DigitOf(i)))
            \o RenderPairs(style, pairs, i + 1)

InitFlash ==
    /\ HandlersIdle
    /\ TasksIdle
    /\ secret = "unset"
    /\ parse_fn = "flashcards"
    /\ \E style \in {"bold", "numbered"}, pairs \in SeqsUpTo(Pairs, MaxPairs) :
          /\ parse_src = [style |-> style, pairs |-> pairs]
          /\ parse_in = RenderPairs(style, pairs, 1)
    /\ parse_pc = "ready"
    /\ parse_out = <<>>

\* flashcards = parse_flashcards(flashcards_text)
ParseFlashcards ==
    /\ parse_pc = "ready"
    /\ parse_fn = "flashcards"
    /\ parse_out' = parse_flashcards(parse_in)
    /\ parse_pc' = "parsed"
    /\ UNCHANGED <<parse_fn, parse_src, parse_in>>
    /\ UNCHANGED <<handlerVars, taskVars>>

NextFlash == ParseFlashcards

SpecFlash == InitFlash /\ [][NextFlash]_vars

\* C10: for a reply made of n >= 1 well-formed bold pairs the parser returns
\* n records in the order of the pairs, the i-th holding the i-th question
\* and answer without the blanks around them; the alternative pattern is
\* searched only when the first pattern matches nowhere.
C10_OneRecordPerPair ==
    parse_pc = "parsed" =>
        /\ (parse_src.style = "bold" /\ Len(parse_src.pairs) >= 1) =>
              /\ parse_out.flashcards =
                    [i \in 1..Len(parse_src.pairs) |->
                        [question |-> parse_src.pairs[i].q, answer |-> parse_src.pairs[i].a]]
              /\ ~parse_out.alternative
        /\ parse_out.alternative => FindAll(flashcard_pattern, parse_in, 1) = <<>>

C10_Witness ==
    /\ parse_pc = "parsed"
    /\ parse_src.style = "bold"
    /\ Len(parse_src.pairs) = 2
    /\ parse_src.pairs[1].padded
    /\ parse_src.pairs[1].q = <<"x", "*", " ", "y">>
    /\ Len(parse_out.flashcards) = 2
    /\ parse_out.flashcards[1].question = <<"x", "*", " ", "y">>

----------------------------------------------------------------------------
(* The specification of parse_quiz: replies of the model made of numbered  *)
(* blocks in the format the prompt asks for, with or without the           *)
(* "Options:" line, whose answer line may be missing or malformed.         *)

\* "Answer" is a malformed marker, "" a missing answer line
Blocks ==
    [header : BOOLEAN, marker : {"Correct answer", "correct choice", "Answer", ""},
     letter : {"A", "C"}]

WellFormed(b) == b.marker \in {"Correct answer", "correct option", "correct choice"}

\* the question of the i-th block and its four options: words of their own
QuestionText(i) == CASE i = 1 -> "q1" [] i = 2 -> "q2" [] OTHER -> "q3"
OptionText(i, letter) ==
    CASE i = 1 -> (CASE letter = "A" -> "a1" [] letter = "B" -> "b1"
                     [] letter = "C" -> "c1" [] OTHER -> "d1")
      [] i = 2 -> (CASE letter = "A" -> "a2" [] letter = "B" -> "b2"
                     [] letter = "C" -> "c2" [] OTHER -> "d2")
      [] OTHER -> (CASE letter = "A" -> "a3" [] letter = "B" -> "b3"
                     [] letter = "C" -> "c3" [] OTHER -> "d3")

\* i. question / Options: / A. .. / B. .. / C. .. / D. .. / Correct answer: L
RenderBlock(b, i) ==
    <<DigitOf(i), ".", " ", QuestionText(i), "\n">>
        \o (IF b.header THEN <<"Options:", "\n">> ELSE <<>>)
        \o <<"A", ".", " ", OptionText(i, "A"), "\n">>
        \o <<"B", ".", " ", OptionText(i, "B"), "\n">>
        \o <<"C", ".", " ", OptionText(i, "C"), "\n">>
        \o <<"D", ".", " ", OptionText(i, "D"), "\n">>
        \o (IF b.marker = "" THEN <<>> ELSE <<b.marker, ":", " ", b.letter, "\n">>)

RECURSIVE RenderBlocks(_, _)
RenderBlocks(blocks, i) ==
    IF i > Len(blocks) THEN <<>>
    ELSE RenderBlock(blocks[i], i) \o RenderBlocks(blocks, i + 1)

InitQuiz ==
    /\ HandlersIdle
    /\ TasksIdle
    /\ secret = "unset"
    /\ parse_fn = "quiz"
    /\ \E blocks \in SeqsUpTo(Blocks, MaxBlocks) :
          /\ parse_src = blocks
          /\ parse_in = RenderBlocks(blocks, 1)
    /\ parse_pc = "ready"
    /\ parse_out = <<>>

\* quiz = parse_quiz(quiz_text)
ParseQuiz ==
    /\ parse_pc = "ready"
    /\ parse_fn = "quiz"
    /\ parse_out' = parse_quiz(parse_in)
    /\ parse_pc' = "parsed"
    /\ UNCHANGED <<parse_fn, parse_src, parse_in>>
    /\ UNCHANGED <<handlerVars, taskVars>>

NextQuiz == ParseQuiz

SpecQuiz == InitQuiz /\ [][NextQuiz]_vars

\* the options of a returned question that are marked correct
CorrectOptions(question) == {j \in 1..Len(question.options) : question.options[j].is_correct}

\* C7 (as claimed): for a reply whose blocks all have four lettered options
\* and a stated correct letter, with or without the "Options:" line, each
\* returned question has exactly one option marked correct, and that option
\* holds the text of the stated letter's option.
C7_ExactlyOneCorrect ==
    (parse_pc = "parsed" /\ \A i \in 1..Len(parse_src) : WellFormed(parse_src[i])) =>
        /\ Len(parse_out) = Len(parse_src)
        /\ \A i \in 1..Len(parse_out) :
              /\ Cardinality(CorrectOptions(parse_out[i])) = 1
              /\ \A j \in CorrectOptions(parse_out[i]) :
                    parse_out[i].options[j].option = <<OptionText(i, parse_src[i].letter)>>

\* C8 (as claimed): in a reply of several blocks, each with its "Options:"
\* line, a block whose answer line is missing or malformed yields no record:
\* no returned question holds its question text, and a returned question
\* holds only options of its own block.
C8_MalformedBlockDropped ==
    (parse_pc = "parsed" /\ \A i \in 1..Len(parse_src) : parse_src[i].header) =>
        \A i \in 1..Len(parse_src) :
            /\ ~WellFormed(parse_src[i]) =>
                  \A r \in 1..Len(parse_out) : parse_out[r].question # <<QuestionText(i)>>
            /\ \A r \in 1..Len(parse_out) :
                  parse_out[r].question = <<QuestionText(i)>> =>
                      \A j \in 1..Len(parse_out[r].options) :
                          parse_out[r].options[j].option
                              \in {<<OptionText(i, l)>> : l \in Letters}

----------------------------------------------------------------------------
(* The specification of concurrent requests.  Both handlers are coroutines *)
(* ("async def") run by one event loop: a handler keeps the loop from one  *)
(* await to the next, and another request's handler runs only while it is  *)
(* suspended at an await.  The only await of the module is the one of      *)
(* file.read() in process_file_upload; model.generate_content and sleep    *)
(* are blocking calls.  genai.configure sets a configuration of the        *)
(* process, shared by all requests; a call of the external model is made   *)
(* under the key that configuration holds when the call is made.           *)

\* the key the i-th client sends as its own
UserKey(i) == CASE i = 1 -> "user-key" [] i = 2 -> "user-key-2" [] OTHER -> "user-key-3"

\* a request that has arrived: which endpoint, and the gemini_api_key sent
NewTask(k, key) ==
    [kind |-> k, gemini_api_key |-> key, pc |-> "pending", stage |-> "",
     attempts |-> 0, answer |-> "none"]

\* Requests whose input passes the checks of their handler: text with
\* content for /generate, a text file that is not blank for the upload.
ArrivingTasks(i) ==
    {NewTask(k, key) : k \in {"generate", "upload"}, key \in {None, Some(""), Some(UserKey(i))}}

\* Yields with the event loop also released at every external call.
YieldsAtCalls(p) == p \in {"reading", "call", "done"}

\* The positions at which a handler is suspended or over: at the await of
\* file.read(), and after its return or raise.
Yields(p) == p \in {"reading", "done"}

\* the event loop runs one handler at a time
Holds(i) == loop_owner \in {0, i}

Release(i, p) == loop_owner' = IF Yields(p) THEN 0 ELSE i

servedVars == <<pc, kind, request, secret, secret_lookups, stage, completed,
                max_attempts, initial_delay, attempts, delay, invocations, log,
                outcome, rate_failed, response>>

\* api_key_to_use = ...; if not api_key_to_use: raise HTTPException(400);
\* genai.configure(api_key=api_key_to_use); model = genai.GenerativeModel(...)
\* and on to the first generate_content call, that of the summary.
ConfigureAndStart(i) ==
    LET k == ResolveKey(tasks[i].gemini_api_key, secret)
    IN IF k.t = "key"
       THEN /\ configured_key' = k.key
            /\ tasks' = [tasks EXCEPT ![i].pc = "call", ![i].stage = "summary"]
            /\ Release(i, "call")
       ELSE /\ tasks' = [tasks EXCEPT ![i].pc = "done", ![i].answer = "error"]
            /\ Release(i, "done")
            /\ UNCHANGED configured_key

\* generate_study_materials from its entry to the first generate_content call
StartGenerate(i) ==
    /\ tasks[i].kind = "generate"
    /\ tasks[i].pc = "pending"
    /\ Holds(i)
    /\ ConfigureAndStart(i)
    /\ UNCHANGED <<calls, servedVars, parserVars>>

\* process_file_upload from its entry to "await file.read()"
StartUpload(i) ==
    /\ tasks[i].kind = "upload"
    /\ tasks[i].pc = "pending"
    /\ Holds(i)
    /\ tasks' = [tasks EXCEPT ![i].pc = "reading"]
    /\ Release(i, "reading")
    /\ UNCHANGED <<configured_key, calls, servedVars, parserVars>>

\* process_file_upload from the return of file.read() to the first
\* generate_content call
ResumeUpload(i) ==
    /\ tasks[i].kind = "upload"
    /\ tasks[i].pc = "reading"
    /\ Holds(i)
    /\ ConfigureAndStart(i)
    /\ UNCHANGED <<calls, servedVars, parserVars>>

\* model.generate_content(prompt) under the configuration of the process
ModelCall(i) == calls' = calls \cup {[req |-> i, key |-> configured_key]}

\* the call returns: the next stage is called, or the response is returned
ModelCallReturns(i) ==
    /\ tasks[i].pc = "call"
    /\ Holds(i)
    /\ ModelCall(i)
    /\ IF tasks[i].stage = "quiz"
       THEN /\ tasks' = [tasks EXCEPT ![i].pc = "done", ![i].answer = "generated"]
            /\ Release(i, "done")
       ELSE /\ tasks' = [tasks EXCEPT ![i].stage = NextStage(tasks[i].stage),
                                      ![i].attempts = 0]
            /\ Release(i, "call")
    /\ UNCHANGED <<configured_key, servedVars, parserVars>>

\* the call raises: with_retry sleeps and calls again, or raises to the
\* handler, which answers with the mock or an error
ModelCallRaises(i) ==
    /\ tasks[i].pc = "call"
    /\ Holds(i)
    /\ ModelCall(i)
    /\ IF Exhausted(tasks[i].attempts + 1, DefaultMaxAttempts)
       THEN /\ tasks' = [tasks EXCEPT ![i].pc = "done", ![i].answer = "failed",
                                      ![i].attempts = tasks[i].attempts + 1]
            /\ Release(i, "done")
       ELSE /\ tasks' = [tasks EXCEPT ![i].attempts = tasks[i].attempts + 1]
            /\ Release(i, "call")
    /\ UNCHANGED <<configured_key, servedVars, parserVars>>

InitConc ==
    /\ HandlersIdle
    /\ ParsersIdle
    /\ secret \in SecretStates
    /\ tasks \in {t \in [1..MaxRequests -> UNION {ArrivingTasks(i) : i \in 1..MaxRequests}] :
                    \A i \in 1..MaxRequests : t[i] \in ArrivingTasks(i)}
    /\ loop_owner = 0
    /\ calls = {}

NextConc ==
    \E i \in 1..MaxRequests :
        \/ StartGenerate(i)
        \/ StartUpload(i)
        \/ ResumeUpload(i)
        \/ ModelCallReturns(i)
        \/ ModelCallRaises(i)

SpecConc == InitConc /\ [][NextConc]_vars

\* The key a request resolves: its own gemini_api_key when it sent one (an
\* empty one counts as none), else the stored secret.
OwnKey(i) ==
    IF tasks[i].gemini_api_key.some /\ tasks[i].gemini_api_key.v # ""
    THEN tasks[i].gemini_api_key.v
    ELSE StoredKey

\* C13: whatever the interleaving of the requests in flight, every external
\* model call made for a request is made under the key that request
\* resolved, never under a key another request has configured.
C13_CallsUnderOwnKey ==
    \A c \in calls : c.key = OwnKey(c.req)

C13_Witness ==
    /\ tasks[1].kind = "upload"
    /\ tasks[1].pc = "call"
    /\ tasks[1].stage = "quiz"
    /\ tasks[2].kind = "generate"
    /\ tasks[2].answer = "generated"
    /\ calls = {[req |-> 1, key |-> "user-key"], [req |-> 2, key |-> StoredKey]}

====
